---------------------------- MODULE Spec2Model ----------------------------
(***************************************************************************)
(* A model of the ZoomParticipants tool chain:                             *)
(*   GetZoomParticipants.py      - paginated fetch of a meeting's          *)
(*                                 participants, de-duplicated             *)
(*   GenerateAttendanceSheet.py  - analyze_attendance: group lookup,       *)
(*                                 registrant and delegate matching        *)
(*   GenerateAttendanceSummary.py- generate_summary_report: quorum count   *)
(*                                 and the filtered views                  *)
(* A Python str is a sequence of one-character strings, so that lower(),   *)
(* strip(), split(), the regular-expression substitutions and the `in`     *)
(* substring test are computed as the code computes them.                  *)
(***************************************************************************)
EXTENDS Integers, Sequences, FiniteSets, TLC

(***************************************************************************)
(* Characters and the str methods the code uses.                           *)
(***************************************************************************)
UpperCase == <<"A","B","C","D","E","F","G","H","I","J","K","L","M",
               "N","O","P","Q","R","S","T","U","V","W","X","Y","Z">>
LowerCase == <<"a","b","c","d","e","f","g","h","i","j","k","l","m",
               "n","o","p","q","r","s","t","u","v","w","x","y","z">>
Digits == {"0","1","2","3","4","5","6","7","8","9"}
WhiteSpace == {" ", "\t"}

\* The characters of the model in code-point order (str comparison in a sort).
CodePoints == <<"\t"," ","(",")",",","-",".","/",
                "0","1","2","3","4","5","6","7","8","9","@">>
              \o UpperCase \o LowerCase \o <<"|">>

Ord(c) == CHOOSE i \in 1..Len(CodePoints) : CodePoints[i] = c

SetMin(S) == CHOOSE x \in S : \A y \in S : x <= y
SetMax(S) == CHOOSE x \in S : \A y \in S : x >= y

\* str.lower(), character by character
LowerTable ==
    [c \in {CodePoints[i] : i \in 1..Len(CodePoints)} |->
        IF \E i \in 1..26 : UpperCase[i] = c
        THEN LowerCase[CHOOSE i \in 1..26 : UpperCase[i] = c]
        ELSE c]

LowerChar(c) == LowerTable[c]

\* str.lower()
Lower(s) == [i \in 1..Len(s) |-> LowerChar(s[i])]

\* str.strip()
Strip(s) ==
    LET keep == {i \in 1..Len(s) : s[i] \notin WhiteSpace}
    IN  IF keep = {} THEN <<>> ELSE SubSeq(s, SetMin(keep), SetMax(keep))

\* str.split() with no argument: the maximal runs of non-whitespace
RECURSIVE SplitAcc(_, _, _, _)
SplitAcc(s, i, cur, out) ==
    IF i > Len(s)
    THEN IF cur = <<>> THEN out ELSE Append(out, cur)
    ELSE IF s[i] \in WhiteSpace
         THEN SplitAcc(s, i + 1, <<>>, IF cur = <<>> THEN out ELSE Append(out, cur))
         ELSE SplitAcc(s, i + 1, Append(cur, s[i]), out)

Split(s) == SplitAcc(s, 1, <<>>, <<>>)

\* a in b, for str
IsSubstring(a, b) ==
    \E i \in 0..(Len(b) - Len(a)) : SubSeq(b, i + 1, i + Len(a)) = a

\* str.replace(old, new), old not empty: leftmost non-overlapping occurrences
RECURSIVE ReplaceFrom(_, _, _, _)
ReplaceFrom(s, i, old, new) ==
    IF i > Len(s) THEN <<>>
    ELSE IF i + Len(old) - 1 <= Len(s) /\ SubSeq(s, i, i + Len(old) - 1) = old
         THEN new \o ReplaceFrom(s, i + Len(old), old, new)
         ELSE <<s[i]>> \o ReplaceFrom(s, i + 1, old, new)

Replace(s, old, new) == IF old = <<>> THEN s ELSE ReplaceFrom(s, 1, old, new)

\* re.sub(re.escape(pat), '', s, flags=re.IGNORECASE)
RECURSIVE ReSubLiteralFrom(_, _, _)
ReSubLiteralFrom(s, i, pat) ==
    IF i > Len(s) THEN <<>>
    ELSE IF i + Len(pat) - 1 <= Len(s)
            /\ Lower(SubSeq(s, i, i + Len(pat) - 1)) = Lower(pat)
         THEN ReSubLiteralFrom(s, i + Len(pat), pat)
         ELSE <<s[i]>> \o ReSubLiteralFrom(s, i + 1, pat)

ReSubLiteralIgnoreCase(pat, s) ==
    IF pat = <<>> THEN s ELSE ReSubLiteralFrom(s, 1, pat)

\* re.sub(r'\(.*?\)', '', s): each "(" up to the nearest ")" after it
RECURSIVE ReSubParensFrom(_, _)
ReSubParensFrom(s, i) ==
    IF i > Len(s) THEN <<>>
    ELSE LET close == {j \in (i + 1)..Len(s) : s[j] = ")"}
         IN  IF s[i] = "(" /\ close # {}
             THEN ReSubParensFrom(s, SetMin(close) + 1)
             ELSE <<s[i]>> \o ReSubParensFrom(s, i + 1)

ReSubParens(s) == ReSubParensFrom(s, 1)

greens == <<"g","r","e","e","n","s">>

\* re.sub(r'\s+greens$', '', group, flags=re.IGNORECASE)
ReSubGreensSuffix(group) ==
    LET n == Len(group)
    IN  IF n >= 7 /\ Lower(SubSeq(group, n - 5, n)) = greens
                  /\ group[n - 6] \in WhiteSpace
        THEN LET start == SetMin({j \in 1..(n - 6) :
                                    \A k \in j..(n - 6) : group[k] \in WhiteSpace})
             IN  SubSeq(group, 1, start - 1)
        ELSE group


(***************************************************************************)
(* GenerateAttendanceSheet.py                                              *)
(***************************************************************************)
Unknown == <<"U","n","k","n","o","w","n">>
SpaceGreens == <<" ","G","r","e","e","n","s">>
CommaSpace == <<","," ">>

\* A Python dict: the items in insertion order; assigning to a key that is
\* present replaces its value where it stands.
DictHas(d, k) == \E i \in 1..Len(d) : d[i].key = k
DictGet(d, k) == d[CHOOSE i \in 1..Len(d) : d[i].key = k].value
\* (a variant that keeps the value a key already has, as dict.setdefault)
DictSet_KeepFirst(d, k, v) ==
    IF DictHas(d, k) THEN d ELSE Append(d, [key |-> k, value |-> v])

DictSet(d, k, v) ==
    IF DictHas(d, k)
    THEN [i \in 1..Len(d) |-> IF d[i].key = k THEN [key |-> k, value |-> v] ELSE d[i]]
    ELSE Append(d, [key |-> k, value |-> v])

\* "".join(word[0] for word in words)
Initials(words) == [i \in 1..Len(words) |-> words[i][1]]

\* the cleaned name of a group: 'Kiama Greens' -> 'kiama'
Cleaned(group) == Lower(Strip(ReSubGreensSuffix(group)))

\* (a variant that stores the cleaned name where the group belongs)
AddGroup_StoreCleaned(lookup, group) ==
    LET cleaned == Cleaned(group)
        with_cleaned == DictSet(lookup, cleaned, cleaned)
        words == Split(cleaned)
    IN  IF Len(words) > 1
        THEN DictSet(with_cleaned, Initials(words), group)
        ELSE with_cleaned

\* one iteration of the loop of build_group_lookup
AddGroup(lookup, group) ==
    LET cleaned == Cleaned(group)
        with_cleaned == DictSet(lookup, cleaned, group)
        words == Split(cleaned)
    IN  IF Len(words) > 1
        THEN DictSet(with_cleaned, Initials(words), group)
        ELSE with_cleaned

RECURSIVE BuildFrom(_, _, _)
BuildFrom(lookup, groups, i) ==
    IF i > Len(groups) THEN lookup
    ELSE BuildFrom(AddGroup(lookup, groups[i]), groups, i + 1)

build_group_lookup(groups) == BuildFrom(<<>>, groups, 1)

\* (a variant that looks the words up without lower())
find_best_group_match_CaseSensitive(user_name, lookup) ==
    LET parts == Split(user_name)
        two_word_key == IF Len(parts) >= 2
                        THEN parts[1] \o <<" ">> \o parts[2] ELSE <<>>
    IN  IF Len(parts) >= 2 /\ DictHas(lookup, two_word_key)
        THEN DictGet(lookup, two_word_key)
        ELSE IF Len(parts) >= 1 /\ DictHas(lookup, parts[1])
             THEN DictGet(lookup, parts[1])
             ELSE Unknown

find_best_group_match(user_name, lookup) ==
    LET parts == Split(Lower(user_name))
        two_word_key == IF Len(parts) >= 2
                        THEN parts[1] \o <<" ">> \o parts[2] ELSE <<>>
    IN  IF Len(parts) >= 2 /\ DictHas(lookup, two_word_key)
        THEN DictGet(lookup, two_word_key)
        ELSE IF Len(parts) >= 1 /\ DictHas(lookup, parts[1])
             THEN DictGet(lookup, parts[1])
             ELSE Unknown

\* re.sub(r'[^a-z0-9]', '', name.lower())
AToZ0To9 == Digits \cup {LowerCase[i] : i \in 1..26}

normalize_name(name) ==
    LET keep(c) == c \in AToZ0To9
    IN  SelectSeq(Lower(name), keep)

\* str(p_row['email']).lower().strip()
ZoomEmail(p_row) == Strip(Lower(p_row.email))

\* step 2 of the loop body: the person's name, without (...) and the group
PotentialName(zoom_user_name, local_group) ==
    LET without_parens == Strip(ReSubParens(zoom_user_name))
    IN  IF local_group # Unknown
        THEN LET group_name_base == Replace(local_group, SpaceGreens, <<>>)
             IN  Strip(ReSubLiteralIgnoreCase(group_name_base, without_parens))
        ELSE without_parens

\* (a variant that compares the billing email without .str.strip())
RegEmailRows_NoStrip(zoom_email, registrants) ==
    {k \in 1..Len(registrants) : Lower(registrants[k].BillingEmail) = zoom_email}

\* registrants_df[registrants_df['Billing-Email'].str.lower().str.strip() == zoom_email]
RegEmailRows(zoom_email, registrants) ==
    {k \in 1..Len(registrants) :
        Strip(Lower(registrants[k].BillingEmail)) = zoom_email}

\* delegates_df[delegates_df['email'].str.lower().str.strip() == zoom_email]
DelEmailRows(zoom_email, delegates) ==
    {k \in 1..Len(delegates) : Strip(Lower(delegates[k].email)) = zoom_email}

\* (a variant without the `break`: the last accepted row)
LastRow(rows) == SetMax(rows)

\* reg_match.iloc[0], and the `break` of a name loop: the first accepted row
FirstRow(rows) == SetMin(rows)

\* `if zoom_email:` guarding both email attempts
TryEmail(zoom_email) == zoom_email # <<>>

\* sort_name = r_row['Last Name'] + ', ' + r_row['First Name']
SortName(r_row) == r_row.LastName \o CommaSpace \o r_row.FirstName

\* last, first = [s.strip() for s in sort_name.split(',', 1)];
\* normalize_name(f"{first}{last}")
NormRegName(r_row) ==
    LET sort_name == SortName(r_row)
        comma == SetMin({i \in 1..Len(sort_name) : sort_name[i] = ","})
        last == Strip(SubSeq(sort_name, 1, comma - 1))
        first == Strip(SubSeq(sort_name, comma + 1, Len(sort_name)))
    IN  normalize_name(first \o last)

\* norm_x in norm_zoom_name or norm_zoom_name in norm_x
Contains(norm_x, norm_zoom_name) ==
    IsSubstring(norm_x, norm_zoom_name) \/ IsSubstring(norm_zoom_name, norm_x)

\* the rows the name loop over registrants_df would accept
RegNameRows(potential_name, registrants) ==
    {k \in 1..Len(registrants) :
        Contains(NormRegName(registrants[k]), normalize_name(potential_name))}

\* the rows the name loop over delegates_df would accept
DelNameRows(potential_name, delegates) ==
    {k \in 1..Len(delegates) :
        Contains(normalize_name(delegates[k].full_name), normalize_name(potential_name))}

\* `if not is_registered and len(potential_name.split()) >= 2:`
TryRegName(is_registered, potential_name) ==
    ~is_registered /\ Len(Split(potential_name)) >= 2

\* (a variant without `is_registered` in the condition)
TryDelName_Ungated(is_delegate, is_registered, potential_name) ==
    ~is_delegate /\ Len(Split(potential_name)) >= 2

\* `if not is_delegate and is_registered and len(potential_name.split()) >= 2:`
TryDelName(is_delegate, is_registered, potential_name) ==
    ~is_delegate /\ is_registered /\ Len(Split(potential_name)) >= 2

\* One match_rules entry, f"{stage}: Zoom {by} '{zoom}' ... '{matched}'"
Rule(stage, by, zoom, matched) ==
    [stage |-> stage, by |-> by, zoom |-> zoom, matched |-> matched]

NoMatchFound == <<Rule("No Match Found", "", <<>>, <<>>)>>

\* (a variant without the 'No Match Found' alternative)
MatchRule_Joined(match_rules) == match_rules

\* ' | '.join(match_rules) if match_rules else 'No Match Found'
MatchRule(match_rules) == IF match_rules # <<>> THEN match_rules ELSE NoMatchFound

\* 'Registered' if is_registered else 'Unregistered'
RegisteredLabel(is_registered) == IF is_registered THEN "Registered" ELSE "Unregistered"

\* 'Delegate' if is_delegate else 'Observer'
DelegateLabel(is_delegate) == IF is_delegate THEN "Delegate" ELSE "Observer"

\* (a variant that writes the normalized email into the record)
RecordEmail_Normalized(p_row) == ZoomEmail(p_row)

\* the 'email' cell of the output record
RecordEmail(p_row) == p_row.email

\* The body of the loop of analyze_attendance for one participant row.
AnalyzeRow(p_row, registrants, delegates, lookup) ==
    LET zoom_user_name == p_row.user_name
        zoom_email == ZoomEmail(p_row)
        local_group == find_best_group_match(zoom_user_name, lookup)
        potential_name == PotentialName(zoom_user_name, local_group)
        \* 3. registrants, attempt 1: email
        reg_match == IF TryEmail(zoom_email)
                     THEN RegEmailRows(zoom_email, registrants) ELSE {}
        reg_by_email == reg_match # {}
        rules1 == IF reg_by_email
                  THEN <<Rule("Registered", "email", zoom_email,
                              registrants[FirstRow(reg_match)].BillingEmail)>>
                  ELSE <<>>
        \* attempt 2: name
        reg_names == IF TryRegName(reg_by_email, potential_name)
                     THEN RegNameRows(potential_name, registrants) ELSE {}
        is_registered == reg_by_email \/ reg_names # {}
        rules2 == IF reg_names # {}
                  THEN Append(rules1, Rule("Registered", "name", potential_name,
                                           SortName(registrants[FirstRow(reg_names)])))
                  ELSE rules1
        \* 4. delegates, attempt 1: email
        del_match == IF TryEmail(zoom_email)
                     THEN DelEmailRows(zoom_email, delegates) ELSE {}
        del_by_email == del_match # {}
        rules3 == IF del_by_email
                  THEN Append(rules2, Rule("Delegate", "email", zoom_email,
                                           delegates[FirstRow(del_match)].email))
                  ELSE rules2
        \* attempt 2: name
        del_names == IF TryDelName(del_by_email, is_registered, potential_name)
                     THEN DelNameRows(potential_name, delegates) ELSE {}
        is_delegate == del_by_email \/ del_names # {}
        match_rules == IF del_names # {}
                       THEN Append(rules3, Rule("Delegate", "name", potential_name,
                                                delegates[FirstRow(del_names)].full_name))
                       ELSE rules3
    IN  [zoom_user_name |-> zoom_user_name,
         email |-> RecordEmail(p_row),
         local_group |-> local_group,
         registered_unregistered |-> RegisteredLabel(is_registered),
         delegate_observer |-> DelegateLabel(is_delegate),
         match_rule |-> MatchRule(match_rules)]

(***************************************************************************)
(* GenerateAttendanceSummary.py                                            *)
(***************************************************************************)
\* str < str
RECURSIVE StrLessFrom(_, _, _)
StrLessFrom(a, b, i) ==
    IF i > Len(a) THEN i <= Len(b)
    ELSE IF i > Len(b) THEN FALSE
    ELSE IF a[i] = b[i] THEN StrLessFrom(a, b, i + 1)
    ELSE Ord(a[i]) < Ord(b[i])

StrLess(a, b) == StrLessFrom(a, b, 1)

\* the order of sort_values(by=['local group', 'zoom_user_name'])
RosterBefore(x, y) ==
    \/ StrLess(x.local_group, y.local_group)
    \/ x.local_group = y.local_group /\ StrLess(x.zoom_user_name, y.zoom_user_name)

\* sort_values: rows in RosterBefore order, equal keys in their order in df
RECURSIVE SortRoster(_)
SortRoster(df) ==
    IF df = <<>> THEN <<>>
    ELSE LET first == SetMin({i \in 1..Len(df) :
                                \A j \in 1..Len(df) : ~RosterBefore(df[j], df[i])})
             rest == [k \in 1..(Len(df) - 1) |-> IF k < first THEN df[k] ELSE df[k + 1]]
         IN  <<df[first]>> \o SortRoster(rest)

IsUnmatched(row) == row.match_rule = NoMatchFound
IsUnregistered(row) == row.registered_unregistered = "Unregistered"
IsDelegate(row) == row.delegate_observer = "Delegate"
HasKnownGroup(row) == row.local_group # Unknown

\* (a variant that counts the values, not the distinct values)
NUnique_Count(values) == Len(values)

\* Series.nunique()
NUnique(values) == Cardinality({values[i] : i \in 1..Len(values)})

\* represented_groups_df['local group'].nunique()
TotalGroupsWithDelegates(df) ==
    LET delegates == SelectSeq(df, IsDelegate)
        represented_groups_df == SelectSeq(delegates, HasKnownGroup)
    IN  NUnique([i \in 1..Len(represented_groups_df) |->
                    represented_groups_df[i].local_group])

UnmatchedView(df) == SelectSeq(df, IsUnmatched)
UnregisteredView(df) == SelectSeq(df, IsUnregistered)
DelegateRoster(df) == SortRoster(SelectSeq(df, IsDelegate))

\* the sheets generate_summary_report writes for the frame df
SummaryOf(df) ==
    [made |-> TRUE,
     total_attendees |-> Len(df),
     total_groups_with_delegates |-> TotalGroupsWithDelegates(df),
     unmatched_attendees |-> Len(SelectSeq(df, IsUnmatched)),
     unregistered_attendees |-> Len(SelectSeq(df, IsUnregistered)),
     delegate_roster_df |-> DelegateRoster(df),
     unmatched_df |-> UnmatchedView(df),
     unregistered_df |-> UnregisteredView(df),
     full |-> df]

\* no report: the input file was not found
NoReport ==
    [made |-> FALSE, total_attendees |-> 0, total_groups_with_delegates |-> 0,
     unmatched_attendees |-> 0, unregistered_attendees |-> 0,
     delegate_roster_df |-> <<>>, unmatched_df |-> <<>>, unregistered_df |-> <<>>,
     full |-> <<>>]

NoFile == [exists |-> FALSE, rows |-> <<>>]

(***************************************************************************)
(* GetZoomParticipants.py                                                  *)
(***************************************************************************)
\* key = (p.get("participant_user_id"), p.get("email"), p.get("user_name"))
Key(p) == <<p.participant_user_id, p.email, p.user_name>>

\* the loop over data.get("participants", []) of one page
RECURSIVE AddPage(_, _, _)
AddPage(acc, page, i) ==
    IF i > Len(page) THEN acc
    ELSE IF Key(page[i]) \notin acc.seen
         THEN AddPage([seen |-> acc.seen \cup {Key(page[i])},
                       participants |-> Append(acc.participants, page[i])],
                      page, i + 1)
         ELSE AddPage(acc, page, i + 1)

\* (a variant that tests `next_page_token is None`)
Falsy_NoneOnly(token) == token = "None"

\* `if not next_page_token:` - None and "" are falsy
Falsy(token) == token \in {"None", ""}

\* handle_http_error returns (raise_for_status raises nothing) below 400
StatusProceeds(status_code) == status_code < 400

(***************************************************************************)
(* Inputs.  The tables are drawn from pools of rows that make every branch *)
(* of the matching happen; a table is a sequence of distinct pool rows.    *)
(***************************************************************************)
MaxRegistrants == 2
MaxDelegates == 1
MaxGroups == 1
MaxBatch == 3
MaxGroupList == 3
MaxRows == 3
MaxPages == 2
MaxPageLen == 2

DistinctSeqs(S, n) ==
    {s \in UNION {[1..k -> S] : k \in 0..n} :
        \A i, j \in 1..Len(s) : i # j => s[i] # s[j]}

KiamaGreens == <<"K","i","a","m","a"," ","G","r","e","e","n","s">>
CanadaBayGreens == <<"C","a","n","a","d","a"," ","B","a","y"," ","G","r","e","e","n","s">>
CBGreens == <<"C","B"," ","G","r","e","e","n","s">>
KIAMA == <<"K","I","A","M","A">>
GroupPool == {KiamaGreens, CanadaBayGreens, CBGreens, KIAMA}

Participant(user_name, email) == [user_name |-> user_name, email |-> email]
ParticipantPool ==
    { Participant(<<"K","i","a","m","a"," ","J","o"," ","L","i">>, <<" ","J","@","x"," ">>),
      Participant(<<"J","o"," ","L","i"," ","(","h","e",")"," ","K","i","a","m","a">>, <<>>),
      Participant(<<"C","a","n","a","d","a"," ","B","a","y"," ","A","l"," ","P","o">>, <<"a","@","x">>),
      Participant(<<"c","b"," ","A","l"," ","P","o"," ","J","r">>, <<>>),
      Participant(<<"L","i">>, <<" ">>),
      Participant(<<"B","o"," ","N","g">>, <<"b","@","x">>) }

Registrant(billing, first, last) ==
    [BillingEmail |-> billing, FirstName |-> first, LastName |-> last]
RegJoLi == Registrant(<<"j","@","X">>, <<"J","o">>, <<"L","i">>)
RegJoLiKi == Registrant(<<"J","@","x"," ">>, <<"J","o">>, <<"L","i","-","K","i">>)
RegAlPoJr == Registrant(<<>>, <<"A","l">>, <<"P","o",","," ","J","r">>)
RegistrantPool == {RegJoLi, RegJoLiKi, RegAlPoJr}

Delegate(full_name, email) == [full_name |-> full_name, email |-> email]
DelJoLi == Delegate(<<"J","o"," ","L","i">>, <<"J","@","x">>)
DelAlPo == Delegate(<<"A","l"," ","P","o">>, <<>>)
DelBoNg == Delegate(<<"B","o"," ","N","g">>, <<"b","@","x">>)
DelegatePool == {DelJoLi, DelAlPo, DelBoNg}

\* rows of an annotated attendance file, for the summary on its own
GroupA == <<"A">>
GroupB == <<"B">>
AnnotatedRow(local_group, is_registered, is_delegate) ==
    [zoom_user_name |-> <<"x">>, email |-> <<>>,
     local_group |-> local_group,
     registered_unregistered |-> RegisteredLabel(is_registered),
     delegate_observer |-> DelegateLabel(is_delegate),
     match_rule |-> MatchRule(
        (IF is_registered THEN <<Rule("Registered", "email", <<"x">>, <<"x">>)>> ELSE <<>>)
        \o (IF is_delegate THEN <<Rule("Delegate", "email", <<"x">>, <<"x">>)>> ELSE <<>>))]
RowPool ==
    {AnnotatedRow(g, r, d) : g \in {GroupA, GroupB, Unknown}, r \in BOOLEAN, d \in BOOLEAN}

ZoomParticipant(id, email, user_name, join_time) ==
    [participant_user_id |-> id, email |-> email, user_name |-> user_name,
     join_time |-> join_time]
ZoomPool ==
    { ZoomParticipant("u1", "a@x", "Al", "09:00"),
      ZoomParticipant("u1", "a@x", "Al", "09:30"),
      ZoomParticipant("None", "None", "Bo", "09:00") }
TokenPool == {"None", "", "tok"}
StatusPool == {200, 202, 429, 500}

(***************************************************************************)
(* State.                                                                  *)
(***************************************************************************)
VARIABLES
    participants_df, registrants_df, delegates_df, groups_list, \* load_data
    group_lookup, results, pc,      \* analyze_attendance
    csv_file,                       \* MeetingAttendance.csv
    report,                         \* MeetingSummary.xlsx
    participants, seen, next_page_token, \* get_all_participants
    fetched, tokens, fpc            \* the pages received so far; its position

tables == <<participants_df, registrants_df, delegates_df, groups_list>>
sheet == <<group_lookup, results, pc, csv_file, report>>
fetch == <<participants, seen, next_page_token, fetched, tokens, fpc>>
vars == <<tables, sheet, fetch>>

FetchIdle ==
    /\ participants = <<>> /\ seen = {} /\ next_page_token = "None"
    /\ fetched = <<>> /\ tokens = <<>> /\ fpc = "idle"

SheetIdle ==
    /\ participants_df = <<>> /\ registrants_df = <<>>
    /\ delegates_df = <<>> /\ groups_list = <<>>
    /\ group_lookup = <<>> /\ results = <<>>

\* main() of GenerateAttendanceSheet.py after load_data.  Three families of
\* inputs: one participant against every combination of short tables; a
\* longer participant list against the whole registrant and delegate pools;
\* one participant against longer group lists, where a group may repeat.
InitTables ==
    \/ /\ participants_df \in {<<p>> : p \in ParticipantPool}
       /\ registrants_df \in DistinctSeqs(RegistrantPool, MaxRegistrants)
       /\ delegates_df \in DistinctSeqs(DelegatePool, MaxDelegates)
       /\ groups_list \in DistinctSeqs(GroupPool, MaxGroups)
    \/ /\ participants_df \in DistinctSeqs(ParticipantPool, MaxBatch)
       /\ registrants_df = <<RegJoLiKi, RegJoLi, RegAlPoJr>>
       /\ delegates_df = <<DelAlPo, DelJoLi, DelBoNg>>
       /\ groups_list = <<CanadaBayGreens, KiamaGreens>>
    \/ /\ participants_df \in {<<p>> : p \in ParticipantPool}
       /\ registrants_df = <<>>
       /\ delegates_df = <<>>
       /\ groups_list \in UNION {[1..k -> GroupPool] : k \in 0..MaxGroupList}

Init ==
    /\ InitTables
    /\ group_lookup = <<>> /\ results = <<>> /\ pc = "analyze"
    /\ csv_file = NoFile /\ report = NoReport
    /\ FetchIdle

\* analyze_attendance up to its loop
AnalyzeStart ==
    /\ pc = "analyze"
    /\ group_lookup' = build_group_lookup(groups_list)
    /\ results' = <<>>
    /\ pc' = "loop"
    /\ UNCHANGED <<tables, csv_file, report, fetch>>

\* one iteration of `for _, p_row in participants_df.iterrows()`
AnalyzeNext ==
    /\ pc = "loop"
    /\ Len(results) < Len(participants_df)
    /\ results' = Append(results,
                         AnalyzeRow(participants_df[Len(results) + 1],
                                    registrants_df, delegates_df, group_lookup))
    /\ UNCHANGED <<tables, group_lookup, pc, csv_file, report, fetch>>

\* analyze_attendance returns; write_output(analysis_results, args.output)
WriteOutput ==
    /\ pc = "loop"
    /\ Len(results) = Len(participants_df)
    /\ csv_file' = IF results = <<>> THEN csv_file
                   ELSE [exists |-> TRUE, rows |-> results]
    /\ pc' = "written"
    /\ UNCHANGED <<tables, group_lookup, results, report, fetch>>

\* generate_summary_report(args.input, args.output)
GenerateSummary ==
    /\ pc = "written"
    /\ report' = IF csv_file.exists THEN SummaryOf(csv_file.rows) ELSE NoReport
    /\ pc' = "done"
    /\ UNCHANGED <<tables, group_lookup, results, csv_file, fetch>>

Next == AnalyzeStart \/ AnalyzeNext \/ WriteOutput \/ GenerateSummary

Spec == Init /\ [][Next]_vars

\* generate_summary_report on an annotated attendance file of its own
InitSummary ==
    /\ SheetIdle /\ FetchIdle
    /\ pc = "written" /\ report = NoReport
    /\ \/ csv_file = NoFile
       \/ \E rows \in UNION {[1..k -> RowPool] : k \in 1..MaxRows} :
            csv_file = [exists |-> TRUE, rows |-> rows]

NextSummary == GenerateSummary

SpecSummary == InitSummary /\ [][NextSummary]_vars

\* get_all_participants(meeting_id, access_token) before its loop
InitFetch ==
    /\ SheetIdle
    /\ pc = "idle" /\ csv_file = NoFile /\ report = NoReport
    /\ participants = <<>> /\ seen = {} /\ next_page_token = "None"
    /\ fetched = <<>> /\ tokens = <<>> /\ fpc = "request"

\* one iteration of `while True`: the server answers status_code and, in the
\* body, a page of participants and a next_page_token
FetchPage ==
    /\ fpc = "request"
    /\ Len(tokens) < MaxPages
    /\ \E status_code \in StatusPool,
          page \in UNION {[1..k -> ZoomPool] : k \in 0..MaxPageLen},
          token \in TokenPool :
         IF StatusProceeds(status_code)
         THEN LET acc == AddPage([seen |-> seen, participants |-> participants], page, 1)
              IN  /\ participants' = acc.participants
                  /\ seen' = acc.seen
                  /\ next_page_token' = token
                  /\ fetched' = fetched \o page
                  /\ tokens' = Append(tokens, token)
                  /\ fpc' = IF Falsy(token) THEN "done" ELSE "request"
         ELSE /\ fpc' = "error"
              /\ UNCHANGED <<participants, seen, next_page_token, fetched, tokens>>
    /\ UNCHANGED <<tables, sheet>>

NextFetch == FetchPage

SpecFetch == InitFetch /\ [][NextFetch]_vars

(***************************************************************************)
(* Properties.  A record results[i] is the annotation of participants_df[i]. *)
(***************************************************************************)
Processed == 1..Len(results)

TrimLower(s) == Strip(Lower(s))

\* the entries of record i's match rule written by one stage in one way
RulesOf(i, stage, by) ==
    SelectSeq(results[i].match_rule, LAMBDA r : r.stage = stage /\ r.by = by)

\* the residual name of participant i: without (...) and the matched group
Residual(i) == PotentialName(participants_df[i].user_name, results[i].local_group)

\* the registrant rows whose billing email is participant i's email
SameEmailRows(i) ==
    {k \in 1..Len(registrants_df) :
        TrimLower(registrants_df[k].BillingEmail) = TrimLower(participants_df[i].email)}

HasEmail(i) == TrimLower(participants_df[i].email) # <<>>

IsRegistered(i) == results[i].registered_unregistered = "Registered"
IsDelegateRecord(i) == results[i].delegate_observer = "Delegate"

\* C1 as stated: a participant whose email equals (case- and whitespace-
\* insensitively) some registrant's billing email is labeled 'Registered' and
\* has a match-rule entry citing the email match.
C1_AnyEqualEmail ==
    \A i \in Processed :
        SameEmailRows(i) # {} =>
            /\ IsRegistered(i)
            /\ RulesOf(i, "Registered", "email") # <<>>

\* C1 amended: a participant whose email is not empty after trimming and
\* equals (case- and whitespace-insensitively) some registrant's billing email
\* is labeled 'Registered', and its match rule starts with the one email entry,
\* which cites the trimmed lower-cased email and the billing email of the
\* first such registrant row.
C1_NonEmptyEqualEmail ==
    \A i \in Processed :
        (HasEmail(i) /\ SameEmailRows(i) # {}) =>
            /\ IsRegistered(i)
            /\ RulesOf(i, "Registered", "email") =
                 <<Rule("Registered", "email", TrimLower(participants_df[i].email),
                        registrants_df[SetMin(SameEmailRows(i))].BillingEmail)>>
            /\ results[i].match_rule[1].by = "email"

\* C1 witness: a processed participant matches a billing email that is
\* written differently (case, surrounding blanks), and two rows match.
C1_Witness ==
    \E i \in Processed :
        /\ HasEmail(i)
        /\ Cardinality(SameEmailRows(i)) = 2
        /\ \A k \in SameEmailRows(i) :
              registrants_df[k].BillingEmail # participants_df[i].email

\* the delegate rows whose name contains, or is contained in, participant i's
\* normalized residual name
DelegateNameRows(i) ==
    LET z == normalize_name(Residual(i))
    IN  {k \in 1..Len(delegates_df) :
            LET d == normalize_name(delegates_df[k].full_name)
            IN  IsSubstring(d, z) \/ IsSubstring(z, d)}

\* C2 as stated: delegate matching is gated on registration, so no record is
\* labeled both 'Unregistered' and 'Delegate'.
C2_NeverUnregisteredDelegate ==
    \A i \in Processed : ~(~IsRegistered(i) /\ IsDelegateRecord(i))

\* C2 amended: only the name pass of delegate matching is gated on
\* registration: a record labeled 'Unregistered' has no delegate entry made by
\* name, and it is labeled 'Delegate' exactly when its non-empty email equals
\* a delegate's email.
C2_NameMatchGated ==
    \A i \in Processed :
        ~IsRegistered(i) =>
            /\ RulesOf(i, "Delegate", "name") = <<>>
            /\ IsDelegateRecord(i) <=>
                 /\ HasEmail(i)
                 /\ \E k \in 1..Len(delegates_df) :
                       TrimLower(delegates_df[k].email) = TrimLower(participants_df[i].email)

\* C2 witness: the gate acts: an unregistered participant of two words whose
\* name is a delegate's name stays 'Observer'.
C2_Witness ==
    \E i \in Processed :
        /\ ~IsRegistered(i)
        /\ Len(Split(Residual(i))) >= 2
        /\ DelegateNameRows(i) # {}
        /\ ~IsDelegateRecord(i)

\* lower-cased, every character that is no letter, digit or blank made a blank
PunctuationStripped(name) ==
    [k \in 1..Len(name) |->
        LET c == LowerChar(name[k])
        IN  IF c \in AToZ0To9 \cup WhiteSpace THEN c ELSE " "]

\* key appears in name as a whole word (or run of whole words) at any position
AppearsAsWord(key, name) ==
    LET words == Split(PunctuationStripped(name))
        kw == Split(key)
    IN  /\ kw # <<>>
        /\ \E o \in 0..(Len(words) - Len(kw)) : SubSeq(words, o + 1, o + Len(kw)) = kw

\* C3 as stated: if some lookup key appears in the lower-cased, punctuation-
\* stripped display name as a whole word at any position, the group found is
\* the one mapped by the first such key in insertion order, never 'Unknown'.
C3_WholeWordAnywhere ==
    pc # "analyze" =>
        \A i \in Processed :
            LET hits == {j \in 1..Len(group_lookup) :
                           AppearsAsWord(group_lookup[j].key, participants_df[i].user_name)}
            IN  hits # {} =>
                    /\ results[i].local_group = group_lookup[SetMin(hits)].value
                    /\ results[i].local_group # Unknown

\* the group the lookup maps key to, if record i has it
MapsTo(key, i) ==
    \E j \in 1..Len(group_lookup) :
        group_lookup[j].key = key /\ group_lookup[j].value = results[i].local_group

IsKey(key) == \E j \in 1..Len(group_lookup) : group_lookup[j].key = key

\* C3 amended: only the start of the name is looked up: if the first two
\* whitespace-separated words of the lower-cased display name, joined by one
\* blank, are a lookup key, the group mapped by it is found; otherwise, if the
\* first word is a lookup key, the group mapped by it; otherwise 'Unknown',
\* also when a key appears as a word later in the name.
C3_LeadingWords ==
    pc # "analyze" =>
        \A i \in Processed :
            LET words == Split(Lower(participants_df[i].user_name))
                two == IF Len(words) >= 2 THEN words[1] \o <<" ">> \o words[2] ELSE <<>>
            IN  IF Len(words) >= 2 /\ IsKey(two) THEN MapsTo(two, i)
                ELSE IF Len(words) >= 1 /\ IsKey(words[1]) THEN MapsTo(words[1], i)
                ELSE results[i].local_group = Unknown

\* C3 witness: a name that starts with a group's words in another case gets
\* that group.
C3_Witness ==
    \E i \in Processed :
        /\ results[i].local_group = CanadaBayGreens
        /\ Len(participants_df[i].user_name) > 10
        /\ SubSeq(participants_df[i].user_name, 1, 10) = <<"C","a","n","a","d","a"," ","B","a","y">>

\* the registrant rows of which the normalized name, names[k] for row k,
\* contains or is contained in participant i's normalized residual name
RegistrantNameRows(i, names) ==
    LET z == normalize_name(Residual(i))
    IN  {k \in 1..Len(registrants_df) :
            IsSubstring(names[k], z) \/ IsSubstring(z, names[k])}

\* the normalized first+last name of every registrant row
FirstLastNames ==
    [k \in 1..Len(registrants_df) |->
        normalize_name(registrants_df[k].FirstName \o registrants_df[k].LastName)]

\* the normalized name the code makes of every registrant row's sort name
SortNameNames == [k \in 1..Len(registrants_df) |-> NormRegName(registrants_df[k])]

\* the one registration entry made by name, naming registrant row k
NameEntry(i, k) ==
    Rule("Registered", "name", Residual(i), SortName(registrants_df[k]))

RegistrationEntries(i) ==
    SelectSeq(results[i].match_rule, LAMBDA r : r.stage = "Registered")

\* C4 as stated: whenever some registrant's normalized first+last name contains
\* or is contained in the participant's normalized residual name, the
\* participant is registered and has exactly one registration entry, naming
\* the first such row in table order.
C4_AnyNameContainment ==
    \A i \in Processed :
        LET rows == RegistrantNameRows(i, FirstLastNames)
        IN  rows # {} =>
                /\ IsRegistered(i)
                /\ RegistrationEntries(i) = <<NameEntry(i, SetMin(rows))>>

\* the name pass over the registrants runs for participant i: no registrant
\* has its (non-empty) email, and its residual name has two words or more
NamePassRuns(i) ==
    /\ ~(HasEmail(i) /\ SameEmailRows(i) # {})
    /\ Len(Split(Residual(i))) >= 2

\* C4 amended: for a participant that no registrant matches by email and whose
\* residual name has at least two words, scanning the registrant rows in table
\* order, whenever some registrant's normalized name (the sort name
\* 'Last, First' split at its first comma and joined again as first+last)
\* contains or is contained in the normalized residual name, the participant
\* is registered and has exactly one registration entry, naming the first such
\* row; any other participant gets no registration entry by name.
C4_NamePass ==
    \A i \in Processed :
        LET rows == RegistrantNameRows(i, SortNameNames)
        IN  IF rows # {} /\ NamePassRuns(i)
            THEN /\ IsRegistered(i)
                 /\ RegistrationEntries(i) = <<NameEntry(i, SetMin(rows))>>
            ELSE RulesOf(i, "Registered", "name") = <<>>

\* C4 witness: the name pass runs and two registrant rows qualify.
C4_Witness ==
    \E i \in Processed :
        /\ NamePassRuns(i)
        /\ Cardinality(RegistrantNameRows(i, SortNameNames)) = 2

InRows(row, rows) == \E k \in 1..Len(rows) : rows[k] = row

\* participant i matched no group, no registrant and no delegate
MatchedNothing(i) ==
    /\ results[i].local_group = Unknown
    /\ ~IsRegistered(i)
    /\ ~IsDelegateRecord(i)

\* C5 as stated: a participant that matches no group, no registrant and no
\* delegate has the match rule 'No Match Found' and appears in the unmatched
\* view only: not in the unregistered view, not in the delegate roster.
C5_OnlyUnmatchedView ==
    report.made =>
        \A i \in Processed :
            MatchedNothing(i) =>
                /\ results[i].match_rule = NoMatchFound
                /\ InRows(results[i], report.unmatched_df)
                /\ ~InRows(results[i], report.unregistered_df)
                /\ ~InRows(results[i], report.delegate_roster_df)

\* C5 amended: a participant that matches no group, no registrant and no
\* delegate has the match rule 'No Match Found' and appears in the unmatched
\* view and, being labeled 'Unregistered', in the unregistered view too; it is
\* not in the delegate roster.
C5_UnmatchedAndUnregisteredViews ==
    report.made =>
        \A i \in Processed :
            MatchedNothing(i) =>
                /\ results[i].match_rule = NoMatchFound
                /\ InRows(results[i], report.unmatched_df)
                /\ InRows(results[i], report.unregistered_df)
                /\ ~InRows(results[i], report.delegate_roster_df)

\* C5 witness: a report over records of which one matched nothing and
\* another is a delegate.
C5_Witness ==
    /\ report.made
    /\ \E i \in Processed : MatchedNothing(i)
    /\ \E i \in Processed : IsDelegateRecord(i)

\* C6: groups_with_delegate is the number of distinct local groups among the
\* records labeled 'Delegate' whose local group is not 'Unknown'.
C6_DistinctDelegateGroups ==
    report.made =>
        report.total_groups_with_delegates =
            Cardinality({g \in {csv_file.rows[k].local_group : k \in 1..Len(csv_file.rows)} :
                            /\ g # Unknown
                            /\ \E k \in 1..Len(csv_file.rows) :
                                  /\ csv_file.rows[k].local_group = g
                                  /\ csv_file.rows[k].delegate_observer = "Delegate"})

\* C6 witness: a report over three delegates, of groups A, A and B: the
\* value is 2.
C6_Witness ==
    /\ report.made
    /\ report.total_groups_with_delegates = 2
    /\ LET rows == csv_file.rows
       IN  /\ Len(rows) = 3
           /\ \A k \in 1..3 : rows[k].delegate_observer = "Delegate"
           /\ rows[1].local_group = GroupA
           /\ rows[2].local_group = GroupA
           /\ rows[3].local_group = GroupB

\* the keys build_group_lookup writes for a group
KeysOf(group) ==
    LET words == Split(Cleaned(group))
    IN  {Cleaned(group)} \cup (IF Len(words) > 1 THEN {Initials(words)} ELSE {})

\* the keys each place of groups_list writes
KeysWritten == [g \in 1..Len(groups_list) |-> KeysOf(groups_list[g])]

\* C7: after build_group_lookup, the keys are those the groups produce, and
\* every key maps to the last group of the list that produces it.
C7_LastGroupWins ==
    pc # "analyze" =>
        LET written == KeysWritten
        IN  /\ {group_lookup[j].key : j \in 1..Len(group_lookup)} =
                 UNION {written[g] : g \in 1..Len(groups_list)}
            /\ \A j \in 1..Len(group_lookup) :
                  /\ group_lookup[j].value =
                       groups_list[SetMax({g \in 1..Len(groups_list) :
                                             group_lookup[j].key \in written[g]})]
                  /\ \A k \in 1..Len(group_lookup) :
                        group_lookup[k].key = group_lookup[j].key => k = j

\* C7 witness: a lookup built from a list in which the initials of one group
\* are the cleaned name of a later, different group, and the cleaned name of
\* one group is the initials of a later, different group.
C7_Witness ==
    /\ pc # "analyze"
    /\ \E g, h \in 1..Len(groups_list) :
          /\ g < h
          /\ groups_list[g] # groups_list[h]
          /\ Cleaned(groups_list[h]) \in KeysOf(groups_list[g]) \ {Cleaned(groups_list[g])}
    /\ \E g, h \in 1..Len(groups_list) :
          /\ g < h
          /\ groups_list[g] # groups_list[h]
          /\ Cleaned(groups_list[g]) \in KeysOf(groups_list[h]) \ {Cleaned(groups_list[h])}

\* C8: the local group of every record is one of the supplied group names or
\* 'Unknown'.
C8_GroupIsSuppliedOrUnknown ==
    \A i \in Processed :
        \/ results[i].local_group = Unknown
        \/ \E g \in 1..Len(groups_list) : groups_list[g] = results[i].local_group

\* C8 witness: a record whose group was found, and which went on through a
\* registrant match and a delegate match.
C8_Witness ==
    \E i \in Processed :
        /\ results[i].local_group # Unknown
        /\ IsRegistered(i)
        /\ IsDelegateRecord(i)

\* C9: one record per participant, in input order, each with the display name
\* and the email of its participant row.
C9_OneRecordPerParticipantInOrder ==
    /\ Len(results) <= Len(participants_df)
    /\ pc \in {"written", "done"} => Len(results) = Len(participants_df)
    /\ \A i \in Processed :
          /\ results[i].zoom_user_name = participants_df[i].user_name
          /\ results[i].email = participants_df[i].email

\* C9 witness: the analysis returned for three participants with different
\* outcomes, one of them with an email written with blanks and capitals.
C9_Witness ==
    /\ pc = "written"
    /\ Len(results) = 3
    /\ \E i \in Processed : IsRegistered(i) /\ IsDelegateRecord(i)
    /\ \E i \in Processed : MatchedNothing(i)
    /\ \E i \in Processed : TrimLower(participants_df[i].email) # participants_df[i].email

\* the places of fetched where a key appears for the first time
FirstPlaces == {i \in 1..Len(fetched) :
                  \A j \in 1..(i - 1) : Key(fetched[j]) # Key(fetched[i])}

\* the n-th smallest element of a set of numbers
Nth(S, n) == CHOOSE x \in S : Cardinality({y \in S : y <= x}) = n

\* C10: at every iteration the accumulated list holds one entry for each
\* distinct key of the pages fetched so far, in order of first appearance; the
\* loop goes on while pages carry a next_page_token and returns at the first
\* page that carries none.
C10_DedupInFirstAppearanceOrder ==
    /\ Len(participants) = Cardinality(FirstPlaces)
    /\ \A n \in 1..Len(participants) : participants[n] = fetched[Nth(FirstPlaces, n)]
    /\ seen = {Key(fetched[i]) : i \in 1..Len(fetched)}
    /\ fpc = "request" => \A t \in 1..Len(tokens) : tokens[t] \notin {"None", ""}
    /\ fpc = "done" =>
          /\ tokens # <<>>
          /\ tokens[Len(tokens)] \in {"None", ""}
          /\ \A t \in 1..(Len(tokens) - 1) : tokens[t] \notin {"None", ""}

\* C10 witness: the loop returned after several pages in which a participant
\* was repeated within a page and across pages.
C10_Witness ==
    /\ fpc = "done"
    /\ Len(tokens) >= 2
    /\ Len(participants) = 2
    /\ Len(fetched) >= 4

=============================================================================
